---- MODULE Spec2Model ----
(***************************************************************************)
(* Model of IEC62304_autogen.py: the startup credential check, the         *)
(* interactive command loop with its in-memory queue, file discovery,      *)
(* per-format text extraction, whitespace normalisation and the            *)
(* character-budgeted context builder.                                     *)
(*                                                                         *)
(* A Python str is a sequence of one-character strings; a pathlib.Path is  *)
(* the sequence of the characters of its text.                             *)
(***************************************************************************)
EXTENDS Integers, Sequences, FiniteSets, TLC

VARIABLES
    pc,        \* where the process is: "start", "check", "main", "loop", "await" (suspended
               \* in await team.run), "exit1", "bye", "crashed"
    environ,   \* names set in os.environ
    dotenv,    \* names the .env file defines
    libs,      \* optional parsing libraries that imported successfully
    team,      \* TRUE once build_team() has returned
    queue,     \* main's local list `queue`
    last,      \* the last thing input() gave: a line (its tokens), EOF, or nothing yet
    printed,   \* the last message printed
    invoked,   \* TRUE iff team.run was called for the last line read
    evidence,  \* what the last `run` got from load_evidence and build_context
    call,      \* a direct call of one of the utility functions: its name and arguments
    ret        \* what that call returned

vars == <<pc, environ, dotenv, libs, team, queue, last, printed, invoked, evidence, call, ret>>

(***************************************************************************)
(* Bounds of the model.                                                    *)
(***************************************************************************)
MaxTextLen == 5     \* longest text given to clean_text directly
MaxArgs == 2        \* most patterns on one `add` line
MaxItems == 2       \* most EvidenceItems given to build_context directly
MaxBudget == 24     \* largest max_chars given to a directly called function
MaxPaths == 2       \* most paths given to load_evidence directly

(***************************************************************************)
(* Python str and list operations.                                         *)
(***************************************************************************)
Min(a, b) == IF a <= b THEN a ELSE b

Max(a, b) == IF a >= b THEN a ELSE b

\* s[:n], for any integer n (a negative n counts from the end)
Slice(s, n) ==
    IF n >= 0 THEN SubSeq(s, 1, Min(n, Len(s)))
    ELSE SubSeq(s, 1, Max(0, Len(s) + n))

\* s[:n] for a Python list slice with a non-negative constant n
Take(s, n) == SubSeq(s, 1, Min(n, Len(s)))

RECURSIVE SumLen(_)
\* sum(len(t) for t in texts)
SumLen(texts) ==
    IF texts = <<>> THEN 0 ELSE Len(Head(texts)) + SumLen(Tail(texts))

RECURSIVE Join(_, _)
\* sep.join(parts)
Join(sep, parts) ==
    IF parts = <<>> THEN <<>>
    ELSE IF Len(parts) = 1 THEN Head(parts)
    ELSE Head(parts) \o sep \o Join(sep, Tail(parts))

\* the characters str.strip() removes, among those the model's texts hold
Whitespace == {" ", "\t", "\n", "\r"}

\* s.lstrip(): from the first character that is not whitespace
LStrip(s) ==
    IF \A i \in 1..Len(s) : s[i] \in Whitespace THEN <<>>
    ELSE SubSeq(s, CHOOSE i \in 1..Len(s) :
                       s[i] \notin Whitespace /\ \A j \in 1..(i - 1) : s[j] \in Whitespace,
                Len(s))

\* s.rstrip(): up to the last character that is not whitespace
RStrip(s) ==
    IF \A i \in 1..Len(s) : s[i] \in Whitespace THEN <<>>
    ELSE SubSeq(s, 1, CHOOSE i \in 1..Len(s) :
                          s[i] \notin Whitespace /\ \A j \in (i + 1)..Len(s) : s[j] \in Whitespace)

\* s.strip()
Strip(s) == RStrip(LStrip(s))

\* each character of s with the one before it ("" at the start) and after it ("" at the end)
Neighbours(s) ==
    [i \in 1..Len(s) |-> [c |-> s[i],
                          prev |-> IF i = 1 THEN "" ELSE s[i - 1],
                          next |-> IF i = Len(s) THEN "" ELSE s[i + 1]]]

\* the function f on 1..n as a sequence
AsSeq(f) == SubSeq(f, 1, Len(f))

\* A space or tab that follows a space or tab lies inside a match the scan already began
SpaceMatchStarts(e) == ~(e.c \in {" ", "\t"} /\ e.prev \in {" ", "\t"})

\* re.sub(r"[ \t]+", " ", s): leftmost, greedy, non-overlapping, so each maximal run
\* of spaces and tabs is one match; the match gives " " where it starts
SubSpaces(s) ==
    LET kept == SelectSeq(Neighbours(s), SpaceMatchStarts)
    IN AsSeq([i \in 1..Len(kept) |-> IF kept[i].c \in {" ", "\t"} THEN " " ELSE kept[i].c])

\* Dropped by the newline pattern: a CR directly before an LF (the optional \r of the
\* match that LF begins), and an LF directly after an LF (inside the \n+ of a match)
NewlineMatchStarts(e) ==
    /\ ~(e.c = "\r" /\ e.next = "\n")
    /\ ~(e.c = "\n" /\ e.prev = "\n")

\* re.sub(r"\r?\n+", "\n", s): a match is one optional CR and the maximal run of LF
\* after it; the match gives "\n" at its first LF. An LF after a CR that follows an LF
\* begins a new match.
SubNewlines(s) ==
    LET kept == SelectSeq(Neighbours(s), NewlineMatchStarts)
    IN AsSeq([i \in 1..Len(kept) |-> kept[i].c])

clean_text(text) == Strip(SubNewlines(SubSpaces(text)))

(***************************************************************************)
(* The state every specification starts from, and the parts of it that a   *)
(* specification of directly called functions leaves alone.                *)
(***************************************************************************)
NoLine == [ev |-> "none", tokens |-> <<>>]

NoEvidence == [items |-> <<>>, context |-> <<>>, filenames |-> <<>>]

NoCall == [fn |-> "none"]

ProcessIdle ==
    /\ pc = "start"
    /\ environ = {}
    /\ dotenv = {}
    /\ libs = {}
    /\ team = FALSE
    /\ queue = <<>>
    /\ last = NoLine
    /\ printed = "none"
    /\ invoked = FALSE
    /\ evidence = NoEvidence

processVars == <<pc, environ, dotenv, libs, team, queue, last, printed, invoked, evidence>>

(***************************************************************************)
(* clean_text called directly on every short text over spaces, tabs,       *)
(* carriage returns, line feeds and an ordinary character.                 *)
(***************************************************************************)
TextAlphabet == {" ", "\t", "\r", "\n", "a"}

Texts == UNION {[1..n -> TextAlphabet] : n \in 0..MaxTextLen}

\* the call has not returned yet
Pending == [done |-> FALSE]

\* the call returned v
Done(v) == [done |-> TRUE, val |-> v]

CallCleanText ==
    /\ call.fn = "clean_text" /\ ~ret.done
    /\ ret' = Done(clean_text(call.text))
    /\ UNCHANGED <<call, processVars>>

InitClean ==
    /\ ProcessIdle
    /\ call \in {[fn |-> "clean_text", text |-> text] : text \in Texts}
    /\ ret = Pending

NextClean == CallCleanText

SpecClean == InitClean /\ [][NextClean]_vars

\* no two adjacent characters of s are both a space or a tab
NoSpaceRun(s) ==
    \A i \in 1..(Len(s) - 1) : ~(s[i] \in {" ", "\t"} /\ s[i + 1] \in {" ", "\t"})

\* no two adjacent characters of s are both line feeds
NoBlankLine(s) ==
    \A i \in 1..(Len(s) - 1) : ~(s[i] = "\n" /\ s[i + 1] = "\n")

\* C8: the result of clean_text holds no run of two or more spaces/tabs and no
\* two consecutive line feeds, and clean_text applied to it changes nothing.
C8_CleanTextNormalised ==
    call.fn = "clean_text" /\ ret.done =>
        /\ NoSpaceRun(ret.val)
        /\ NoBlankLine(ret.val)
        /\ clean_text(ret.val) = ret.val

(***************************************************************************)
(* Exceptions: an operation that may raise gives [exc, val]: exc says      *)
(* whether it raised, val is the value returned or the exception's text.   *)
(***************************************************************************)
Return(v) == [exc |-> FALSE, val |-> v]

Raise(e) == [exc |-> TRUE, val |-> e]

(***************************************************************************)
(* build_context                                                           *)
(***************************************************************************)
S_Evidence == <<"E", "v", "i", "d", "e", "n", "c", "e", ":">>

\* f"\n## {it.title} ({it.kind})\n{it.excerpt}\n"
Chunk(it) ==
    <<"\n", "#", "#", " ">> \o it.title \o <<" ", "(">> \o it.kind
        \o <<")", "\n">> \o it.excerpt \o <<"\n">>

RECURSIVE ContextLoop(_, _, _, _)
\* the for loop of build_context, from the items still to visit
ContextLoop(items, lines, filenames, remaining) ==
    IF items = <<>> \/ remaining <= 0
    THEN [context |-> Join(<<>>, lines), filenames |-> filenames]
    ELSE LET it == Head(items)
             chunk == IF Len(Chunk(it)) > remaining
                      THEN Slice(Chunk(it), remaining) ELSE Chunk(it)
         IN ContextLoop(Tail(items), Append(lines, chunk),
                        Append(filenames, it.title), remaining - Len(chunk))

build_context(items, max_chars) ==
    ContextLoop(items, <<S_Evidence>>, <<>>, max_chars - Len(S_Evidence))

DefaultMaxChars == 10000

(***************************************************************************)
(* build_context called directly: items with an empty, a short and a long  *)
(* excerpt, and every budget from below zero to MaxBudget.                 *)
(***************************************************************************)
S_pdf == <<"p", "d", "f">>

S_docx == <<"d", "o", "c", "x">>

S_xlsx == <<"x", "l", "s", "x">>

SampleItems ==
    { [path |-> <<"/", "w", "/", "a", ".", "p", "d", "f">>, kind |-> S_pdf, title |-> <<"a", ".", "p", "d", "f">>,
       excerpt |-> <<>>],
      [path |-> <<"/", "w", "/", "c", ".", "x", "l", "s", "x">>, kind |-> S_xlsx, title |-> <<"c", ".", "x", "l", "s", "x">>,
       excerpt |-> <<"[", "S", "]", " ", "x", ",", " ", "y">>],
      [path |-> <<"/", "w", "/", "B", ".", "D", "O", "C", "X">>, kind |-> S_docx, title |-> <<"B", ".", "D", "O", "C", "X">>,
       excerpt |-> <<"r", "e", "q", "u", "i", "r", "e", "m", "e", "n", "t", "s", ":", " ", "t", "h", "e", " ", "p", "u", "m", "p", " ", "s", "h", "a", "l", "l", " ", "s", "t", "o", "p">>] }

ItemSeqs == UNION {[1..n -> SampleItems] : n \in 0..MaxItems}

Budgets == (-1)..MaxBudget

CallBuildContext ==
    /\ call.fn = "build_context" /\ ~ret.done
    /\ ret' = Done(build_context(call.items, call.max_chars))
    /\ UNCHANGED <<call, processVars>>

InitContext ==
    /\ ProcessIdle
    /\ call \in {[fn |-> "build_context", items |-> items, max_chars |-> max_chars] :
                    items \in ItemSeqs, max_chars \in Budgets}
    /\ ret = Pending

NextContext == CallBuildContext

SpecContext == InitContext /\ [][NextContext]_vars

\* C1: the context string build_context returns is never longer than max_chars.
C1_ContextWithinBudget ==
    call.fn = "build_context" /\ ret.done => Len(ret.val.context) <= call.max_chars

(***************************************************************************)
(* read_pdf, read_docx, read_xlsx                                          *)
(*                                                                         *)
(* What a parsing library finds in a file is a record: `raises` says that  *)
(* the library raised while opening or reading it (with the text `err`),   *)
(* otherwise the record holds the page texts, the paragraph texts or the   *)
(* worksheets. A page whose extract_text() gives None or "" is <<>>; a     *)
(* cell is str(cell.value), or <<>> for a value that is falsy.             *)
(***************************************************************************)
PageCap == 10

SheetCap == 3

RowCap == 20

DecimalDigits == <<"0", "1", "2", "3", "4", "5", "6", "7", "8", "9">>

RECURSIVE Decimal(_)
\* str(n) for n >= 0
Decimal(n) ==
    IF n < 10 THEN <<DecimalDigits[n + 1]>>
    ELSE Decimal(n \div 10) \o <<DecimalDigits[(n % 10) + 1]>>

RECURSIVE PdfLoop(_, _, _, _)
\* the for loop of read_pdf over reader.pages[:10], from page number i (0-based)
PdfLoop(pages, i, texts, max_chars) ==
    IF i >= Len(pages) THEN texts
    ELSE LET txt == Strip(pages[i + 1])
             more == Append(texts, <<"[", "p">> \o Decimal(i + 1) \o <<"]", " ">> \o txt)
         IN IF txt = <<>> THEN PdfLoop(pages, i + 1, texts, max_chars)
            ELSE IF SumLen(more) > max_chars THEN more
            ELSE PdfLoop(pages, i + 1, more, max_chars)

\* the try block of read_pdf
PdfTry(doc, max_chars) ==
    IF doc.raises THEN Raise(doc.err)
    ELSE Return(Slice(clean_text(Join(<<"\n">>,
                    PdfLoop(Take(doc.pages, PageCap), 0, <<>>, max_chars))), max_chars))

read_pdf(installed, doc, max_chars) ==
    IF ~installed THEN Return(<<"(", "I", "n", "s", "t", "a", "l", "l", " ", "p", "y", "p", "d", "f", ")">>)
    ELSE LET r == PdfTry(doc, max_chars)
         IN IF r.exc THEN Return(<<"(", "P", "D", "F", " ", "e", "r", "r", "o", "r", ":", " ">> \o r.val \o <<")">>) ELSE r

RECURSIVE StripNonEmpty(_)
\* [p.text.strip() for p in d.paragraphs if p.text.strip()]
StripNonEmpty(paras) ==
    IF paras = <<>> THEN <<>>
    ELSE IF Strip(Head(paras)) = <<>> THEN StripNonEmpty(Tail(paras))
    ELSE <<Strip(Head(paras))>> \o StripNonEmpty(Tail(paras))

\* the try block of read_docx
DocxTry(doc, max_chars) ==
    IF doc.raises THEN Raise(doc.err)
    ELSE Return(Slice(clean_text(Join(<<"\n">>, StripNonEmpty(doc.paras))), max_chars))

\* read_docx without its except clause
read_docx_uncaught(installed, doc, max_chars) ==
    IF ~installed THEN Return(<<"(", "I", "n", "s", "t", "a", "l", "l", " ", "p", "y", "t", "h", "o", "n", "-", "d", "o", "c", "x", ")">>)
    ELSE DocxTry(doc, max_chars)

read_docx(installed, doc, max_chars) ==
    IF ~installed THEN Return(<<"(", "I", "n", "s", "t", "a", "l", "l", " ", "p", "y", "t", "h", "o", "n", "-", "d", "o", "c", "x", ")">>)
    ELSE LET r == DocxTry(doc, max_chars)
         IN IF r.exc THEN Return(<<"(", "D", "O", "C", "X", " ", "e", "r", "r", "o", "r", ":", " ">> \o r.val \o <<")">>) ELSE r

RECURSIVE RowLoop(_, _, _)
\* the inner for loop of read_xlsx over the rows 1..20 of one worksheet
RowLoop(sheetRows, rows, max_chars) ==
    IF sheetRows = <<>> THEN rows
    ELSE LET more == Append(rows, Join(<<",", " ">>, Head(sheetRows)))
         IN IF SumLen(more) > max_chars \div 2 THEN more
            ELSE RowLoop(Tail(sheetRows), more, max_chars)

RECURSIVE SheetLoop(_, _, _)
\* the outer for loop of read_xlsx over wb.worksheets[:3]
SheetLoop(sheets, parts, max_chars) ==
    IF sheets = <<>> THEN parts
    ELSE LET ws == Head(sheets)
             rows == RowLoop(Take(ws.rows, RowCap), <<>>, max_chars)
             more == Append(parts, <<"[">> \o ws.title \o <<"]", " ">>
                                       \o Join(<<" ", "|", " ">>, rows))
         IN IF rows = <<>> THEN SheetLoop(Tail(sheets), parts, max_chars)
            ELSE IF SumLen(more) > max_chars THEN more
            ELSE SheetLoop(Tail(sheets), more, max_chars)

\* the try block of read_xlsx
XlsxTry(doc, max_chars) ==
    IF doc.raises THEN Raise(doc.err)
    ELSE Return(Slice(clean_text(Join(<<"\n">>,
                    SheetLoop(Take(doc.sheets, SheetCap), <<>>, max_chars))), max_chars))

read_xlsx(installed, doc, max_chars) ==
    IF ~installed THEN Return(<<"(", "I", "n", "s", "t", "a", "l", "l", " ", "o", "p", "e", "n", "p", "y", "x", "l", ")">>)
    ELSE LET r == XlsxTry(doc, max_chars)
         IN IF r.exc THEN Return(<<"(", "X", "L", "S", "X", " ", "e", "r", "r", "o", "r", ":", " ">> \o r.val \o <<")">>) ELSE r

(***************************************************************************)
(* The files' contents the model draws from.                               *)
(***************************************************************************)
PdfOk == [raises |-> FALSE, err |-> <<>>,
          pages |-> <<<<" ", "S", "R", "S", " ", " ", "v", "1", " ">>, <<>>, <<"5", ".", "2", "\r", "\n", "\r", "\n", "r", "e", "q">>>>]

PdfBad == [raises |-> TRUE, err |-> <<"E", "O", "F", " ", "m", "a", "r", "k", "e", "r", " ", "n", "o", "t", " ", "f", "o", "u", "n", "d">>, pages |-> <<>>]

PdfLong == [raises |-> FALSE, err |-> <<>>, pages |-> [i \in 1..11 |-> <<"x">>]]

PdfEmpty == [raises |-> FALSE, err |-> <<>>, pages |-> <<>>]

PdfDocs == {PdfOk, PdfBad, PdfLong, PdfEmpty}

DocxOk == [raises |-> FALSE, err |-> <<>>,
           paras |-> <<<<" ", "P", "l", "a", "n", " ">>, <<" ", "\t">>, <<"S", "O", "U", "P", "\t", "l", "i", "s", "t">>>>]

DocxBad == [raises |-> TRUE, err |-> <<"P", "a", "c", "k", "a", "g", "e", " ", "n", "o", "t", " ", "f", "o", "u", "n", "d">>, paras |-> <<>>]

DocxEmpty == [raises |-> FALSE, err |-> <<>>, paras |-> <<>>]

DocxDocs == {DocxOk, DocxBad, DocxEmpty}

SheetT == [title |-> <<"T">>,
           rows |-> <<<<<<"i", "d">>, <<>>, <<"o", "k">>>>, <<<<"7">>, <<"R", "1">>>>>>]

SheetBlank == [title |-> <<"B">>, rows |-> <<>>]

SheetTall == [title |-> <<"L">>, rows |-> [i \in 1..21 |-> <<<<>>>>]]

XlsxOk == [raises |-> FALSE, err |-> <<>>, sheets |-> <<SheetT, SheetBlank, SheetTall, SheetT>>]

XlsxBad == [raises |-> TRUE, err |-> <<"F", "i", "l", "e", " ", "i", "s", " ", "n", "o", "t", " ", "a", " ", "z", "i", "p", " ", "f", "i", "l", "e">>, sheets |-> <<>>]

XlsxEmpty == [raises |-> FALSE, err |-> <<>>, sheets |-> <<SheetBlank>>]

XlsxDocs == {XlsxOk, XlsxBad, XlsxEmpty}

(***************************************************************************)
(* The three readers called directly, with and without their library, on   *)
(* each content and with every budget from below zero to MaxBudget.        *)
(***************************************************************************)
CallReadPdf ==
    /\ call.fn = "read_pdf" /\ ~ret.done
    /\ ret' = Done(read_pdf(call.installed, call.doc, call.max_chars))
    /\ UNCHANGED <<call, processVars>>

CallReadDocx ==
    /\ call.fn = "read_docx" /\ ~ret.done
    /\ ret' = Done(read_docx(call.installed, call.doc, call.max_chars))
    /\ UNCHANGED <<call, processVars>>

CallReadXlsx ==
    /\ call.fn = "read_xlsx" /\ ~ret.done
    /\ ret' = Done(read_xlsx(call.installed, call.doc, call.max_chars))
    /\ UNCHANGED <<call, processVars>>

NextRead == CallReadPdf \/ CallReadDocx \/ CallReadXlsx

ReaderCalls(fn, docs) ==
    {[fn |-> fn, installed |-> installed, doc |-> doc, max_chars |-> max_chars] :
        installed \in BOOLEAN, doc \in docs, max_chars \in Budgets}

InitRead ==
    /\ ProcessIdle
    /\ call \in ReaderCalls("read_pdf", PdfDocs) \cup ReaderCalls("read_docx", DocxDocs)
                  \cup ReaderCalls("read_xlsx", XlsxDocs)
    /\ ret = Pending

SpecRead == InitRead /\ [][NextRead]_vars

\* C2: whatever the outcome of the extraction (text, library missing, parser
\* exception), the string a reader returns is never longer than max_chars.
C2_ExtractionWithinBudget ==
    call.fn \in {"read_pdf", "read_docx", "read_xlsx"} /\ ret.done =>
        ~ret.val.exc /\ Len(ret.val.val) <= call.max_chars

(***************************************************************************)
(* The file system the process sees: the entries of its working            *)
(* directory, in the order os.scandir gives them.                          *)
(***************************************************************************)
Cwd == <<"/", "w", "/">>

N_a_pdf == <<"a", ".", "p", "d", "f">>

N_B_DOCX == <<"B", ".", "D", "O", "C", "X">>

N_c_xlsx == <<"c", ".", "x", "l", "s", "x">>

N_n_txt == <<"n", ".", "t", "x", "t">>

N_l_pdf == <<"l", ".", "p", "d", "f">>

N_x_pdf == <<"x", ".", "p", "d", "f">>

N_e_pdf == <<"e", ".", "p", "d", "f">>

N_dot_pdf == <<".", "p", "d", "f">>

N_gone == <<"g", "o", "n", "e", ".", "p", "d", "f">>

DirEntries ==
    << [name |-> N_c_xlsx, type |-> "file", target |-> <<>>],
       [name |-> N_l_pdf, type |-> "link", target |-> N_a_pdf],
       [name |-> N_n_txt, type |-> "file", target |-> <<>>],
       [name |-> N_a_pdf, type |-> "file", target |-> <<>>],
       [name |-> N_B_DOCX, type |-> "file", target |-> <<>>],
       [name |-> N_x_pdf, type |-> "link", target |-> N_gone],
       [name |-> N_e_pdf, type |-> "dir", target |-> <<>>],
       [name |-> N_dot_pdf, type |-> "file", target |-> <<>>] >>

EntryNames == {DirEntries[i].name : i \in 1..Len(DirEntries)}

Entry(name) == DirEntries[CHOOSE i \in 1..Len(DirEntries) : DirEntries[i].name = name]

\* glob.has_magic(pat)
HasMagic(pat) == \E i \in 1..Len(pat) : pat[i] \in {"*", "?", "["}

RECURSIVE FnMatch(_, _)
\* fnmatch of name against a pattern of literal characters, * and ?
FnMatch(name, pat) ==
    IF pat = <<>> THEN name = <<>>
    ELSE IF Head(pat) = "*"
         THEN FnMatch(name, Tail(pat)) \/ (name # <<>> /\ FnMatch(Tail(name), pat))
    ELSE /\ name # <<>>
         /\ Head(pat) = "?" \/ Head(pat) = Head(name)
         /\ FnMatch(Tail(name), Tail(pat))

\* glob._ishidden
IsHidden(name) == name # <<>> /\ Head(name) = "."

GlobMatches(e, pat) ==
    /\ FnMatch(e.name, pat)
    /\ IsHidden(pat) \/ ~IsHidden(e.name)

RECURSIVE GlobScan(_, _)
\* the names of the entries, in directory order, that the pattern matches
GlobScan(entries, pat) ==
    IF entries = <<>> THEN <<>>
    ELSE IF GlobMatches(Head(entries), pat)
         THEN <<Head(entries).name>> \o GlobScan(Tail(entries), pat)
    ELSE GlobScan(Tail(entries), pat)

\* glob.glob(pat) for a pattern without a directory part: a pattern without magic
\* gives itself when the name exists (a broken link does), a pattern with magic
\* gives the matching names in directory order
Glob(pat) ==
    IF HasMagic(pat) THEN GlobScan(DirEntries, pat)
    ELSE IF pat \in EntryNames THEN <<pat>> ELSE <<>>

\* Path(p).expanduser().resolve(): absolute, symbolic links followed
Resolve(p) ==
    IF p \in EntryNames /\ Entry(p).type = "link" THEN Cwd \o Entry(p).target
    ELSE Cwd \o p

\* path.exists() and path.is_file(), for a resolved path
IsFile(path) ==
    \E i \in 1..Len(DirEntries) :
        DirEntries[i].type = "file" /\ path = Cwd \o DirEntries[i].name

RECURSIVE DictFromKeys(_, _)
\* list(dict.fromkeys(paths)): a key is inserted when first seen and keeps its place
DictFromKeys(paths, keys) ==
    IF paths = <<>> THEN keys
    ELSE IF \E i \in 1..Len(keys) : keys[i] = Head(paths)
         THEN DictFromKeys(Tail(paths), keys)
    ELSE DictFromKeys(Tail(paths), Append(keys, Head(paths)))

\* s backwards
Reverse(s) == AsSeq([i \in 1..Len(s) |-> s[Len(s) + 1 - i]])

\* deduplication that keeps each path at its last place, not its first
DedupeKeepLast(paths) == Reverse(DictFromKeys(Reverse(paths), <<>>))

Dedupe(paths) == DictFromKeys(paths, <<>>)

RECURSIVE ResolvedFiles(_)
\* the inner loop of discover_paths over the matches of one pattern
ResolvedFiles(matches) ==
    IF matches = <<>> THEN <<>>
    ELSE IF IsFile(Resolve(Head(matches)))
         THEN <<Resolve(Head(matches))>> \o ResolvedFiles(Tail(matches))
    ELSE ResolvedFiles(Tail(matches))

RECURSIVE Appended(_)
\* the list `paths` of discover_paths after both loops, before deduplication
Appended(patterns) ==
    IF patterns = <<>> THEN <<>>
    ELSE ResolvedFiles(Glob(Head(patterns))) \o Appended(Tail(patterns))

discover_paths(patterns) == Dedupe(Appended(patterns))

(***************************************************************************)
(* pathlib: name and suffix of a path; str.lower.                          *)
(***************************************************************************)
\* the index of the last c in s, 0 when there is none
LastIndex(s, c) ==
    IF \E i \in 1..Len(s) : s[i] = c
    THEN CHOOSE i \in 1..Len(s) : s[i] = c /\ \A j \in (i + 1)..Len(s) : s[j] # c
    ELSE 0

\* path.name
Name(path) == SubSeq(path, LastIndex(path, "/") + 1, Len(path))

\* path.suffix: from the last dot of the name, unless the name starts or ends with it
Suffix(path) ==
    LET name == Name(path)
        i == LastIndex(name, ".")
    IN IF 1 < i /\ i < Len(name) THEN SubSeq(name, i, Len(name)) ELSE <<>>

UpperCase == <<"A", "B", "C", "D", "E", "F", "G", "H", "I", "J", "K", "L", "M",
               "N", "O", "P", "Q", "R", "S", "T", "U", "V", "W", "X", "Y", "Z">>

LowerCase == <<"a", "b", "c", "d", "e", "f", "g", "h", "i", "j", "k", "l", "m",
               "n", "o", "p", "q", "r", "s", "t", "u", "v", "w", "x", "y", "z">>

LowerTable ==
    [c \in {UpperCase[i] : i \in 1..Len(UpperCase)} |->
        LowerCase[CHOOSE i \in 1..Len(UpperCase) : UpperCase[i] = c]]

LowerChar(c) == IF c \in DOMAIN LowerTable THEN LowerTable[c] ELSE c

\* s.lower()
Lower(s) == AsSeq([i \in 1..Len(s) |-> LowerChar(s[i])])

X_pdf == <<".", "p", "d", "f">>

X_docx == <<".", "d", "o", "c", "x">>

X_xlsx == <<".", "x", "l", "s", "x">>

(***************************************************************************)
(* load_evidence                                                           *)
(*                                                                         *)
(* installed: the libraries that imported; content: what each file holds.  *)
(***************************************************************************)
DefaultPerFile == 1600

\* handlers without the .docx entry
HandlerKeysNoDocx == {X_pdf, X_xlsx}

\* the keys of `handlers`
HandlerKeys == {X_pdf, X_docx, X_xlsx}

\* handlers[ext][1]
KindOf(ext) == IF ext = X_pdf THEN S_pdf ELSE IF ext = X_docx THEN S_docx ELSE S_xlsx

\* handlers[ext][0](p, max_chars=per_file)
Reader(ext, doc, per_file, installed) ==
    IF ext = X_pdf THEN read_pdf("pypdf" \in installed, doc, per_file)
    ELSE IF ext = X_docx THEN read_docx("docx" \in installed, doc, per_file)
    ELSE read_xlsx("openpyxl" \in installed, doc, per_file)

RECURSIVE LoadLoop(_, _, _, _, _)
\* the for loop of load_evidence, from the paths still to visit; an exception
\* a reader lets out ends the loop and leaves load_evidence
LoadLoop(paths, items, per_file, installed, content) ==
    IF paths = <<>> THEN Return(items)
    ELSE LET p == Head(paths)
             ext == Lower(Suffix(p))
             r == Reader(ext, content[p], per_file, installed)
         IN IF ext \notin HandlerKeys
            THEN LoadLoop(Tail(paths), items, per_file, installed, content)
            ELSE IF r.exc THEN r
            ELSE LoadLoop(Tail(paths),
                          Append(items, [path |-> p, kind |-> KindOf(ext),
                                         title |-> Name(p), excerpt |-> r.val]),
                          per_file, installed, content)

load_evidence(paths, per_file, installed, content) ==
    LoadLoop(paths, <<>>, per_file, installed, content)

(***************************************************************************)
(* What the model's files may hold, and which libraries may be there.      *)
(***************************************************************************)
Libs == {"pypdf", "docx", "openpyxl"}

F_a_pdf == Cwd \o N_a_pdf

F_B_DOCX == Cwd \o N_B_DOCX

F_c_xlsx == Cwd \o N_c_xlsx

RegularFiles == {Cwd \o DirEntries[i].name : i \in {j \in 1..Len(DirEntries) : DirEntries[j].type = "file"}}

\* a file no handler reads
Unread == [raises |-> TRUE, err |-> <<>>]

XlsxSmall == [raises |-> FALSE, err |-> <<>>, sheets |-> <<SheetT, SheetBlank>>]

Contents ==
    {[f \in RegularFiles |-> IF f = F_a_pdf THEN p
                             ELSE IF f = F_B_DOCX THEN d
                             ELSE IF f = F_c_xlsx THEN x
                             ELSE Unread] :
        p \in {PdfOk, PdfBad}, d \in {DocxOk, DocxBad}, x \in {XlsxSmall, XlsxBad}}

(***************************************************************************)
(* load_evidence called directly on every short sequence of the regular    *)
(* files (supported or not, repeats allowed), with every set of installed  *)
(* libraries and every combination of readable and unreadable contents.    *)
(***************************************************************************)
PathSeqs == UNION {[1..n -> RegularFiles] : n \in 0..MaxPaths}

CallLoadEvidence ==
    /\ call.fn = "load_evidence" /\ ~ret.done
    /\ ret' = Done(load_evidence(call.paths, call.per_file, call.installed, call.content))
    /\ UNCHANGED <<call, processVars>>

InitLoad ==
    /\ ProcessIdle
    /\ call \in {[fn |-> "load_evidence", paths |-> paths, per_file |-> DefaultPerFile,
                  installed |-> installed, content |-> content] :
                    paths \in PathSeqs, installed \in SUBSET Libs, content \in Contents}
    /\ ret = Pending

NextLoad == CallLoadEvidence

SpecLoad == InitLoad /\ [][NextLoad]_vars

\* s starts with pre
HasPrefix(s, pre) == Len(s) >= Len(pre) /\ SubSeq(s, 1, Len(pre)) = pre

\* the suffixes the claims call supported
ClaimedSuffixes == {<<".", "p", "d", "f">>, <<".", "d", "o", "c", "x">>, <<".", "x", "l", "s", "x">>}

HasClaimedSuffix(path) == Lower(Suffix(path)) \in ClaimedSuffixes

\* the excerpt stands for an extraction that did not happen
IsPlaceholder(x) ==
    /\ x # <<>> /\ x[Len(x)] = ")"
    /\ \/ HasPrefix(x, <<"(", "I", "n", "s", "t", "a", "l", "l", " ">>)
       \/ HasPrefix(x, <<"(", "P", "D", "F", " ", "e", "r", "r", "o", "r", ":", " ">>)
       \/ HasPrefix(x, <<"(", "D", "O", "C", "X", " ", "e", "r", "r", "o", "r", ":", " ">>)
       \/ HasPrefix(x, <<"(", "X", "L", "S", "X", " ", "e", "r", "r", "o", "r", ":", " ">>)

\* the library that reads the path
LibFor(path) ==
    IF Lower(Suffix(path)) = <<".", "p", "d", "f">> THEN "pypdf"
    ELSE IF Lower(Suffix(path)) = <<".", "d", "o", "c", "x">> THEN "docx" ELSE "openpyxl"

\* C5: load_evidence raises nothing; it returns one item per supported path, in
\* the order of the paths; the item of a file whose library is missing or whose
\* parser raised holds a placeholder; and each item is the one load_evidence
\* gives for that file alone, whatever happened to the other files.
C5_FailureNeverAborts ==
    call.fn = "load_evidence" /\ ret.done =>
        LET wanted == SelectSeq(call.paths, HasClaimedSuffix)
            items == ret.val.val
        IN /\ ~ret.val.exc
           /\ Len(items) = Len(wanted)
           /\ \A i \in 1..Len(wanted) :
                /\ items[i].path = wanted[i]
                /\ (LibFor(wanted[i]) \notin call.installed \/ call.content[wanted[i]].raises)
                       => IsPlaceholder(items[i].excerpt)
                /\ <<items[i]>> = load_evidence(<<wanted[i]>>, call.per_file,
                                                call.installed, call.content).val

\* two files, the first one unreadable and the second one read
C5_Witness ==
    /\ call.fn = "load_evidence" /\ ret.done
    /\ Len(call.paths) = 2 /\ call.content[call.paths[1]].raises
    /\ Len(ret.val.val) = 2
    /\ IsPlaceholder(ret.val.val[1].excerpt)
    /\ ~IsPlaceholder(ret.val.val[2].excerpt)

(***************************************************************************)
(* discover_paths called directly on every short sequence of patterns.     *)
(***************************************************************************)
P_star == <<"*">>

P_star_pdf == <<"*", ".", "p", "d", "f">>

P_q_txt == <<"?", ".", "t", "x", "t">>

P_none == <<"z", "z">>

Patterns == {P_star, P_star_pdf, P_q_txt, P_none, N_l_pdf, N_B_DOCX, N_c_xlsx, N_dot_pdf}

ArgSeqs == UNION {[1..n -> Patterns] : n \in 0..MaxArgs}

CallDiscoverPaths ==
    /\ call.fn = "discover_paths" /\ ~ret.done
    /\ ret' = Done(discover_paths(call.patterns))
    /\ UNCHANGED <<call, processVars>>

InitDiscover ==
    /\ ProcessIdle
    /\ call \in {[fn |-> "discover_paths", patterns |-> patterns] : patterns \in ArgSeqs}
    /\ ret = Pending

NextDiscover == CallDiscoverPaths

SpecDiscover == InitDiscover /\ [][NextDiscover]_vars

NoRepeat(s) == \A i, j \in 1..Len(s) : s[i] = s[j] => i = j

\* the position of the first x in s
FirstAt(s, x) == CHOOSE i \in 1..Len(s) : s[i] = x /\ \A j \in 1..(i - 1) : s[j] # x

\* C7: discover_paths returns every resolved regular file its patterns match,
\* each once, in the order of their first matches over the patterns in the order given.
C7_DiscoverDedupesInOrder ==
    call.fn = "discover_paths" /\ ret.done =>
        LET seen == Appended(call.patterns)
            r == ret.val
        IN /\ NoRepeat(r)
           /\ {r[i] : i \in 1..Len(r)} =
                  {f \in RegularFiles :
                      \E k \in 1..Len(call.patterns), e \in 1..Len(DirEntries) :
                          /\ \E m \in 1..Len(Glob(call.patterns[k])) :
                                 Glob(call.patterns[k])[m] = DirEntries[e].name
                          /\ f = Resolve(DirEntries[e].name)}
           /\ \A i, j \in 1..Len(r) : i < j => FirstAt(seen, r[i]) < FirstAt(seen, r[j])

\* a file is matched through a link first and again by a later pattern, and keeps
\* its first place, ahead of a file that comes before it in the directory
C7_Witness ==
    /\ call.fn = "discover_paths" /\ ret.done
    /\ call.patterns = <<N_l_pdf, P_star>>
    /\ Len(Appended(call.patterns)) > Len(ret.val)
    /\ ret.val[1] = F_a_pdf /\ ret.val[2] = F_c_xlsx

(***************************************************************************)
(* The process: the __main__ block, then main() and its command loop.      *)
(*                                                                         *)
(* A line read by input() is the sequence of its whitespace-separated      *)
(* tokens, raw.strip().split(); a blank line is <<>>.                      *)
(***************************************************************************)
ApiKey == "ANTHROPIC_API_KEY"

W_add == <<"a", "d", "d">>

W_ADD == <<"A", "D", "D">>

W_list == <<"l", "i", "s", "t">>

W_clear == <<"c", "l", "e", "a", "r">>

W_run == <<"r", "u", "n">>

W_Run == <<"R", "u", "n">>

W_quit == <<"q", "u", "i", "t">>

W_exit == <<"e", "x", "i", "t">>

W_help == <<"h", "e", "l", "p">>

\* the lines the user may type
Lines ==
    { <<>>,
      <<W_add>>, <<W_ADD>>,
      <<W_add, P_star>>, <<W_add, P_star_pdf>>, <<W_add, N_l_pdf, P_star>>,
      <<W_add, P_q_txt>>, <<W_add, N_dot_pdf, P_q_txt>>, <<W_add, P_none>>,
      <<W_ADD, N_B_DOCX, N_c_xlsx>>, <<W_add, N_c_xlsx>>, <<W_add, N_B_DOCX>>,
      <<W_list>>, <<W_list, P_star>>, <<W_clear>>, <<W_run>>, <<W_Run, P_star>>,
      <<W_quit>>, <<W_exit>>, <<W_help>>, <<W_help, W_add>> }

\* cmd, *args = raw.split(); cmd = cmd.lower()
Cmd(tokens) == Lower(Head(tokens))

Args(tokens) == Tail(tokens)

Line(tokens) == [ev |-> "line", tokens |-> tokens]

\* The process starts with or without the credential in its environment and in
\* its .env file, and with all, some or none of the parsing libraries importable.
Init ==
    /\ pc = "start"
    /\ environ \in SUBSET {ApiKey}
    /\ dotenv \in SUBSET {ApiKey}
    /\ libs \in {Libs, Libs \ {"docx"}, {}}
    /\ team = FALSE
    /\ queue = <<>>
    /\ last = NoLine
    /\ printed = "none"
    /\ invoked = FALSE
    /\ evidence = NoEvidence
    /\ call = NoCall
    /\ ret = Pending

\* load_dotenv(): a name of the .env file is set unless the environment has it
LoadDotenv ==
    /\ pc = "start"
    /\ pc' = "check"
    /\ environ' = environ \cup dotenv
    /\ UNCHANGED <<dotenv, libs, team, queue, last, printed, invoked, evidence, call, ret>>

\* a guard that never finds the credential missing
CredentialMissingNever(env) == FALSE

\* "ANTHROPIC_API_KEY" not in os.environ
CredentialMissing(env) == ApiKey \notin env

\* the guard found no credential: print, exit(1)
ExitNoCredential ==
    /\ pc = "check"
    /\ CredentialMissing(environ)
    /\ printed' = "ERROR: Set ANTHROPIC_API_KEY"
    /\ pc' = "exit1"
    /\ UNCHANGED <<environ, dotenv, libs, team, queue, last, invoked, evidence, call, ret>>

\* the guard passed: asyncio.run(main())
EnterMain ==
    /\ pc = "check"
    /\ ~CredentialMissing(environ)
    /\ pc' = "main"
    /\ UNCHANGED <<environ, dotenv, libs, team, queue, last, printed, invoked, evidence, call, ret>>

\* main() up to its loop: build_team(), whose build_model_client() reads
\* os.environ["ANTHROPIC_API_KEY"] (a KeyError when it is not set), then the banner
BuildTeam ==
    /\ pc = "main"
    /\ IF ApiKey \in environ
       THEN /\ team' = TRUE
            /\ pc' = "loop"
            /\ printed' = "  quit        - Exit\n"
       ELSE /\ pc' = "crashed"
            /\ UNCHANGED <<team, printed>>
    /\ UNCHANGED <<environ, dotenv, libs, queue, last, invoked, evidence, call, ret>>

\* input() raised EOFError or KeyboardInterrupt: break, "Bye."
EndOfInput ==
    /\ pc = "loop"
    /\ last' = [ev |-> "eof", tokens |-> <<>>]
    /\ printed' = "\nBye."
    /\ pc' = "bye"
    /\ invoked' = FALSE
    /\ evidence' = NoEvidence
    /\ UNCHANGED <<environ, dotenv, libs, team, queue, call, ret>>

\* a line of whitespace only: continue
Blank ==
    /\ pc = "loop"
    /\ last' = Line(<<>>)
    /\ invoked' = FALSE
    /\ evidence' = NoEvidence
    /\ UNCHANGED <<pc, environ, dotenv, libs, team, queue, printed, call, ret>>

\* quit, exit: break, "Bye."
Quit ==
    \E tokens \in Lines :
        /\ pc = "loop"
        /\ tokens # <<>> /\ Cmd(tokens) \in {W_quit, W_exit}
        /\ last' = Line(tokens)
        /\ printed' = "\nBye."
        /\ pc' = "bye"
        /\ invoked' = FALSE
        /\ evidence' = NoEvidence
        /\ UNCHANGED <<environ, dotenv, libs, team, queue, call, ret>>

\* a filter that accepts every file that has a suffix
IsSupportedAny(path) == Suffix(path) # <<>>

\* p.suffix.lower() in {".pdf", ".docx", ".xlsx"}
IsSupported(path) == Lower(Suffix(path)) \in {X_pdf, X_docx, X_xlsx}

\* [p for p in discover_paths(args) if p.suffix.lower() in {...}]
Found(args) == SelectSeq(discover_paths(args), IsSupported)

RECURSIVE NotQueued(_, _)
\* [p for p in found if p not in queue]
NotQueued(found, q) ==
    IF found = <<>> THEN <<>>
    ELSE IF \E i \in 1..Len(q) : q[i] = Head(found) THEN NotQueued(Tail(found), q)
    ELSE <<Head(found)>> \o NotQueued(Tail(found), q)

\* extend without the `not in queue` filter
ExtendedAll(q, found) == q \o found

\* new paths put in front of the queue
ExtendedFront(q, found) == NotQueued(found, q) \o q

\* queue after queue.extend([p for p in found if p not in queue])
Extended(q, found) == q \o NotQueued(found, q)

\* add without arguments: the usage line, continue
AddUsage ==
    \E tokens \in Lines :
        /\ pc = "loop"
        /\ tokens # <<>> /\ Cmd(tokens) = W_add /\ Args(tokens) = <<>>
        /\ last' = Line(tokens)
        /\ printed' = "Usage: add <files>"
        /\ invoked' = FALSE
        /\ evidence' = NoEvidence
        /\ UNCHANGED <<pc, environ, dotenv, libs, team, queue, call, ret>>

\* add <patterns>
Add ==
    \E tokens \in Lines :
        /\ pc = "loop"
        /\ tokens # <<>> /\ Cmd(tokens) = W_add /\ Args(tokens) # <<>>
        /\ last' = Line(tokens)
        /\ LET found == Found(Args(tokens))
           IN IF found # <<>>
              THEN /\ queue' = Extended(queue, found)
                   /\ printed' = "Added " \o ToString(Len(found)) \o " files"
              ELSE /\ queue' = queue
                   /\ printed' = "No supported files found"
        /\ invoked' = FALSE
        /\ evidence' = NoEvidence
        /\ UNCHANGED <<pc, environ, dotenv, libs, team, call, ret>>

\* list
List ==
    \E tokens \in Lines :
        /\ pc = "loop"
        /\ tokens # <<>> /\ Cmd(tokens) = W_list
        /\ last' = Line(tokens)
        /\ printed' = IF queue # <<>> THEN "listing" ELSE "Queue empty"
        /\ invoked' = FALSE
        /\ evidence' = NoEvidence
        /\ UNCHANGED <<pc, environ, dotenv, libs, team, queue, call, ret>>

\* clear
Clear ==
    \E tokens \in Lines :
        /\ pc = "loop"
        /\ tokens # <<>> /\ Cmd(tokens) = W_clear
        /\ last' = Line(tokens)
        /\ queue' = <<>>
        /\ printed' = "Queue cleared"
        /\ invoked' = FALSE
        /\ evidence' = NoEvidence
        /\ UNCHANGED <<pc, environ, dotenv, libs, team, call, ret>>

\* run with an empty queue
RunEmpty ==
    \E tokens \in Lines :
        /\ pc = "loop"
        /\ tokens # <<>> /\ Cmd(tokens) = W_run
        /\ queue = <<>>
        /\ last' = Line(tokens)
        /\ printed' = "Queue empty"
        /\ invoked' = FALSE
        /\ evidence' = NoEvidence
        /\ UNCHANGED <<pc, environ, dotenv, libs, team, queue, call, ret>>

\* the contents that differ on the files of q only (the other files are not read)
ContentsOf(q) ==
    {c \in Contents :
        \A f \in RegularFiles :
            (\A i \in 1..Len(q) : q[i] # f) => c[f] \in {PdfOk, DocxOk, XlsxSmall, Unread}}

\* the text of the early return of run_audit. Its two grave accents around
\* add <files> cannot be written in a string of this language and are left out.
S_NoEvidence == "No evidence. Use add <files>"

S_Dashes == "--------------------------------------------------"

\* run with files queued: await run_audit(team, load_evidence(queue)), up to the
\* point where run_audit is suspended in `await team.run(task=task)`. The files
\* hold what they hold at that moment.
Run ==
    \E tokens \in Lines, content \in ContentsOf(queue) :
        /\ pc = "loop"
        /\ tokens # <<>> /\ Cmd(tokens) = W_run
        /\ queue # <<>>
        /\ last' = Line(tokens)
        /\ LET loaded == load_evidence(queue, DefaultPerFile, libs, content)
               built == build_context(loaded.val, DefaultMaxChars)
           IN IF loaded.exc
              THEN /\ pc' = "crashed"
                   /\ invoked' = FALSE
                   /\ evidence' = NoEvidence
                   /\ UNCHANGED printed
              ELSE IF loaded.val = <<>>
              THEN /\ printed' = S_NoEvidence
                   /\ invoked' = FALSE
                   /\ evidence' = NoEvidence
                   /\ UNCHANGED pc
              ELSE /\ printed' = "Starting audit..."
                   /\ invoked' = TRUE
                   /\ evidence' = [items |-> loaded.val, context |-> built.context,
                                   filenames |-> built.filenames]
                   /\ pc' = "await"
        /\ UNCHANGED <<environ, dotenv, libs, team, queue, call, ret>>

\* a message of result.messages: its source, and its `usage` dict when it has one
M_plain == [source |-> "translator_th", hasUsage |-> FALSE, usage |-> <<>>]

M_usage == [source |-> "society_of_mind_auditor", hasUsage |-> TRUE,
            usage |-> [k \in {"input_tokens"} |-> 7]]

\* the result.messages team.run may return
ResultMessages == {<<>>, <<M_plain>>, <<M_usage, M_plain>>}

RECURSIVE Tokens(_, _)
\* sum(getattr(msg, 'usage', {}).get(key, 0) for msg in messages if hasattr(msg, 'usage'))
Tokens(messages, key) ==
    IF messages = <<>> THEN 0
    ELSE (IF Head(messages).hasUsage /\ key \in DOMAIN Head(messages).usage
          THEN Head(messages).usage[key] ELSE 0) + Tokens(Tail(messages), key)

\* f"Tokens - Total: {total_input + total_output}, In: {total_input}, Out: {total_output}"
TokensLine(messages) ==
    LET total_input == Tokens(messages, "input_tokens")
        total_output == Tokens(messages, "output_tokens")
    IN "Tokens - Total: " \o ToString(total_input + total_output)
           \o ", In: " \o ToString(total_input) \o ", Out: " \o ToString(total_output)

\* team.run returned: the results header, the token line, then each message
\* followed by a line of dashes; back to the prompt
TeamReturns ==
    \E messages \in ResultMessages :
        /\ pc = "await"
        /\ printed' = IF messages = <<>> THEN TokensLine(messages) ELSE S_Dashes
        /\ pc' = "loop"
        /\ UNCHANGED <<environ, dotenv, libs, team, queue, last, invoked, evidence, call, ret>>

\* team.run raised EOFError or KeyboardInterrupt: the handler of the loop
\* catches it, break, "Bye."
TeamInterrupted ==
    /\ pc = "await"
    /\ printed' = "\nBye."
    /\ pc' = "bye"
    /\ UNCHANGED <<environ, dotenv, libs, team, queue, last, invoked, evidence, call, ret>>

\* team.run raised anything else: no handler of main catches it
TeamFails ==
    /\ pc = "await"
    /\ pc' = "crashed"
    /\ UNCHANGED <<environ, dotenv, libs, team, queue, last, printed, invoked, evidence, call, ret>>

\* any other command
Unknown ==
    \E tokens \in Lines :
        /\ pc = "loop"
        /\ tokens # <<>>
        /\ Cmd(tokens) \notin {W_quit, W_exit, W_add, W_list, W_clear, W_run}
        /\ last' = Line(tokens)
        /\ printed' = "Unknown command"
        /\ invoked' = FALSE
        /\ evidence' = NoEvidence
        /\ UNCHANGED <<pc, environ, dotenv, libs, team, queue, call, ret>>

Next ==
    \/ LoadDotenv \/ ExitNoCredential \/ EnterMain \/ BuildTeam
    \/ EndOfInput \/ Blank \/ Quit
    \/ AddUsage \/ Add \/ List \/ Clear \/ RunEmpty \/ Run \/ Unknown
    \/ TeamReturns \/ TeamInterrupted \/ TeamFails

Spec == Init /\ [][Next]_vars

(***************************************************************************)
(* Properties of the process.                                              *)
(***************************************************************************)
\* the last input was a line whose command, lower-cased, is w
LastCmdIs(w) == last.ev = "line" /\ last.tokens # <<>> /\ Cmd(last.tokens) = w

\* C3: no path occurs twice in the queue.
C3_QueueDeduplicated == NoRepeat(queue)

\* `add *` found three files, one of them queued before
C3_Witness ==
    /\ last = Line(<<W_add, P_star>>)
    /\ printed = "Added 3 files"
    /\ queue = <<F_a_pdf, F_c_xlsx, F_B_DOCX>>

\* the step reads an add line whose patterns match no file with a claimed suffix
AddOfUnsupportedOnly ==
    /\ pc = "loop" /\ last'.ev = "line" /\ last'.tokens # <<>>
    /\ Cmd(last'.tokens) = W_add
    /\ LET d == discover_paths(Args(last'.tokens))
       IN \A i \in 1..Len(d) : ~HasClaimedSuffix(d[i])

\* C4: every queued path has a suffix that lower-cased is .pdf, .docx or .xlsx,
\* and an add whose patterns match only other files leaves the queue as it was.
C4_OnlySupportedQueued ==
    /\ [](\A i \in 1..Len(queue) : HasClaimedSuffix(queue[i]))
    /\ [][AddOfUnsupportedOnly => queue' = queue]_vars

\* files are queued, one with an upper-case suffix, and an add of a .txt file
\* and a hidden file found nothing to queue
C4_Witness ==
    /\ last = Line(<<W_add, N_dot_pdf, P_q_txt>>)
    /\ printed = "No supported files found"
    /\ \E i \in 1..Len(queue) : queue[i] = F_B_DOCX

\* C6: without the credential after load_dotenv the process ends with exit
\* status 1 and has built no team, read no line and run no pipeline; the loop,
\* and so any line read, needs the credential.
C6_MissingCredentialFatal ==
    /\ (ApiKey \notin environ /\ pc \notin {"start", "check"})
           => (pc = "exit1" /\ ~team /\ last = NoLine /\ ~invoked)
    /\ (pc \in {"loop", "await"} \/ last # NoLine \/ team \/ invoked) => ApiKey \in environ

C6_Witness ==
    /\ pc = "exit1" /\ ApiKey \notin environ /\ dotenv = {}
    /\ printed = "ERROR: Set ANTHROPIC_API_KEY"

IsPrefix(s, t) == Len(s) <= Len(t) /\ SubSeq(t, 1, Len(s)) = s

\* what a step of the loop may do to the queue, by the line it read; the end of
\* team.run, however it ends, leaves the queue alone
QueueFrame ==
    /\ pc = "loop" =>
           LET t == last'.tokens
               cmd == IF t = <<>> THEN <<>> ELSE Cmd(t)
           IN /\ (cmd \notin {W_add, W_clear} \/ (cmd = W_add /\ Args(t) = <<>>))
                     => queue' = queue
              /\ cmd = W_clear => queue' = <<>>
              /\ cmd = W_add => IsPrefix(queue, queue')
    /\ pc = "await" => queue' = queue

\* C9: only add and clear change the queue: list, run, an unknown command, a
\* blank line and add without arguments leave it as it was, clear empties it,
\* add only appends to it.
C9_QueueFrame == [][QueueFrame]_vars

\* a run over two or more files, one of which could not be read, left the queue whole
C9_Witness ==
    /\ LastCmdIs(W_run) /\ invoked /\ pc = "loop" /\ printed = S_Dashes
    /\ Len(queue) >= 2 /\ Len(evidence.items) = Len(queue)
    /\ \E i \in 1..Len(evidence.items) : IsPlaceholder(evidence.items[i].excerpt)
    /\ \E i \in 1..Len(evidence.items) : ~IsPlaceholder(evidence.items[i].excerpt)

\* C10: team.run is awaited exactly in a run with files queued, and then with
\* at least one evidence item; a run with an empty queue prints "Queue empty";
\* the "No evidence" return of run_audit is never taken.
C10_PipelineOnlyWithEvidence ==
    /\ invoked <=> (LastCmdIs(W_run) /\ queue # <<>>)
    /\ pc = "await" => invoked
    /\ (LastCmdIs(W_run) /\ queue = <<>>) => printed = "Queue empty"
    /\ printed # S_NoEvidence
    /\ invoked => evidence.items # <<>>

\* team.run is pending on the evidence of all three queued files
C10_Witness ==
    /\ invoked /\ pc = "await" /\ printed = "Starting audit..."
    /\ Len(queue) = 3 /\ Len(evidence.items) = 3
    /\ Len(evidence.context) > Len(S_Evidence)

====
